---- MODULE Spec2Model ----
(***************************************************************************)
(* The authenticated calendar-fetch pipeline of Daybreak: the handler of   *)
(* GET /api/events (apps/backend/src/index.ts, carried in src/README.md    *)
(* lines 202-343), and the frontend query function that calls it          *)
(* (apps/frontend/src/hooks/useEvents.ts).  One request runs as a chain of synchronous segments    *)
(* separated by the three awaits (getUser, getUserOauthAccessToken,        *)
(* calendar.events.list); every segment is one action.                     *)
(*                                                                         *)
(* JavaScript values are modelled as follows.  Strings are strings; the    *)
(* values undefined and null are the two reserved strings Undefined and    *)
(* Null; objects are records; arrays are sequences.  A JSON body is a      *)
(* function from the property names that survive serialisation to their    *)
(* values.  A time value is an integer count of ticks, TicksPerDay ticks   *)
(* to the day, day 0 being 1970-01-01; the local time zone is UTC.         *)
(***************************************************************************)
EXTENDS Integers, Sequences, FiniteSets, TLC

VARIABLES
    nodeEnv,      \* process.env.NODE_ENV
    pc,           \* per request: where the handler is suspended
    auth,         \* per request: the value getAuth(c) returned
    accessToken,  \* per request: tokenResponse.data[0].token
    clockReads,   \* per request: the instants the two new Date() calls read
    calls,        \* per request: the external calls made, in order
    results,      \* per request: what each external call settled with
    logs,         \* per request: the console.error lines
    responses,    \* per request: the responses c.json produced
    query         \* the frontend's useEvents query function

vars == <<nodeEnv, pc, auth, accessToken, clockReads, calls, results, logs, responses, query>>

----------------------------------------------------------------------------
(* Bounds of the model *)

MaxAccounts == 2      \* externalAccounts per user
MaxTokens == 2        \* tokens in one token response
MaxItems == 2         \* items in one upstream list response
FirstYear == 2023     \* first year the clock is read in
NumYears == 2         \* years the clock is read in (2024 is a leap year)
TicksPerDay == 2      \* instants distinguished within one day
MaxClockSkew == 1     \* ticks between the two clock reads
PipelineDays == 2     \* days the clock is read in when the date is not at issue

(* Program constants *)

MaxResults == 50

----------------------------------------------------------------------------
(* JavaScript values *)

Undefined == "<undefined>"
Null == "<null>"

\* ToBoolean on the string-like values the handler tests
Truthy(v) == v \notin {Undefined, Null, ""}

\* a || b
OrElse(a, b) == IF Truthy(a) THEN a ELSE b

\* JSON.stringify of an object: properties whose value is undefined are dropped
JsonObject(obj) == [k \in {f \in DOMAIN obj : obj[f] # Undefined} |-> obj[k]]

----------------------------------------------------------------------------
(* Date: the parts of ECMAScript's Date the handler uses *)

\* Day number of a civil date, month in 1..12 (proleptic Gregorian)
DaysFromCivil(y, m, d) ==
    LET yy == IF m <= 2 THEN y - 1 ELSE y
        era == yy \div 400
        yoe == yy - era * 400
        mp == IF m > 2 THEN m - 3 ELSE m + 9
        doy == (153 * mp + 2) \div 5 + d - 1
        doe == yoe * 365 + yoe \div 4 - yoe \div 100 + doy
    IN  era * 146097 + doe - 719468

\* Civil date of a day number
CivilFromDays(z) ==
    LET zz == z + 719468
        era == zz \div 146097
        doe == zz - era * 146097
        yoe == (doe - doe \div 1460 + doe \div 36524 - doe \div 146096) \div 365
        doy == doe - (365 * yoe + yoe \div 4 - yoe \div 100)
        mp == (5 * doy + 2) \div 153
        d == doy - (153 * mp + 2) \div 5 + 1
        m == IF mp < 10 THEN mp + 3 ELSE mp - 9
        y == yoe + era * 400 + (IF m <= 2 THEN 1 ELSE 0)
    IN  [year |-> y, month |-> m, day |-> d]

Day(t) == t \div TicksPerDay
TimeWithinDay(t) == t % TicksPerDay

\* Date.prototype.getMonth: 0 is January
GetMonth(t) == CivilFromDays(Day(t)).month - 1

\* MakeDay(year, month, date): month is any integer, date runs past the month's end
MakeDay(year, month, date) ==
    DaysFromCivil(year + month \div 12, (month % 12) + 1, 1) + date - 1

\* Date.prototype.setMonth(month): year, day-of-month and time of day are kept
SetMonth(t, month) ==
    LET c == CivilFromDays(Day(t))
    IN  MakeDay(c.year, month, c.day) * TicksPerDay + TimeWithinDay(t)

\* Date.prototype.toISOString: the UTC calendar fields of the time value
ToISOString(t) ==
    LET c == CivilFromDays(Day(t))
    IN  [year |-> c.year, month |-> c.month, day |-> c.day, tick |-> TimeWithinDay(t)]

----------------------------------------------------------------------------
(* Values the collaborators can hand to the handler *)

SeqsUpTo(S, n) == UNION {[1..k -> S] : k \in 0..n}

NodeEnvs == {"production", "development", "test", Undefined}

\* getAuth(c): null, a signed-out auth object, or a signed-in one
AuthObjects ==
    {[object |-> FALSE, userId |-> Undefined], [object |-> TRUE, userId |-> Null],
     [object |-> TRUE, userId |-> "user_1"], [object |-> TRUE, userId |-> "user_2"]}

Providers == {"oauth_google", "oauth_github"}
Users == [externalAccounts : SeqsUpTo([provider : Providers], MaxAccounts)]

Tokens == {"tok_a", "tok_b"}
TokenResponses ==
    {[hasData |-> FALSE, data |-> <<>>]}
        \cup [hasData : {TRUE}, data : SeqsUpTo([token : Tokens], MaxTokens)]

NoResponse == [defined |-> FALSE, status |-> Undefined, data |-> Undefined]

\* Values a rejected promise or a throw can carry
ThrownValues ==
    {[type |-> "object", isError |-> TRUE, message |-> "socket hang up",
      hasResponse |-> FALSE, response |-> NoResponse],
     [type |-> "object", isError |-> TRUE, message |-> "",
      hasResponse |-> FALSE, response |-> NoResponse],
     [type |-> "object", isError |-> TRUE, message |-> "Invalid Credentials",
      hasResponse |-> TRUE,
      response |-> [defined |-> TRUE, status |-> "401", data |-> "upstream body"]],
     [type |-> "object", isError |-> TRUE, message |-> "Bad Gateway",
      hasResponse |-> TRUE,
      response |-> [defined |-> TRUE, status |-> "502", data |-> Undefined]],
     [type |-> "object", isError |-> TRUE, message |-> "aborted",
      hasResponse |-> TRUE, response |-> NoResponse],
     [type |-> "object", isError |-> FALSE, message |-> "not an Error",
      hasResponse |-> TRUE,
      response |-> [defined |-> TRUE, status |-> "500", data |-> "plain body"]],
     [type |-> "object", isError |-> FALSE, message |-> "not an Error",
      hasResponse |-> FALSE, response |-> NoResponse],
     [type |-> "string", isError |-> FALSE, message |-> Undefined,
      hasResponse |-> FALSE, response |-> NoResponse],
     [type |-> "null", isError |-> FALSE, message |-> Undefined,
      hasResponse |-> FALSE, response |-> NoResponse],
     [type |-> "undefined", isError |-> FALSE, message |-> Undefined,
      hasResponse |-> FALSE, response |-> NoResponse]}

\* One throw, for the runs whose subject is not the error path
OneThrown == {e \in ThrownValues : e.message = "Invalid Credentials"}

\* The TypeError of reading .items of an undefined response.data
ItemsTypeError ==
    [type |-> "object", isError |-> TRUE,
     message |-> "Cannot read properties of undefined (reading 'items')",
     hasResponse |-> FALSE, response |-> NoResponse]

\* Upstream items: every property is optional, and may be null or empty
NoStart == [defined |-> FALSE, dateTime |-> Undefined, date |-> Undefined]
Starts ==
    {NoStart} \cup [defined : {TRUE}, dateTime : {Undefined, "", "2025-06-01T10:00:00Z"},
                    date : {Undefined, "2025-06-01"}]
AllItems ==
    [id : {Undefined, "", "e1"}, summary : {Undefined, Null, "", "Meet"}, start : Starts,
     description : {Undefined, "d"}, location : {Undefined, "", "l"}]

\* A few item shapes, for the runs whose subject is not the mapping
SomeItems ==
    {[id |-> "e1", summary |-> "Meet",
      start |-> [defined |-> TRUE, dateTime |-> "2025-06-01T10:00:00Z", date |-> Undefined],
      description |-> "d", location |-> "l"],
     [id |-> "e1", summary |-> Undefined,
      start |-> [defined |-> TRUE, dateTime |-> Undefined, date |-> "2025-06-01"],
      description |-> Undefined, location |-> Undefined],
     [id |-> Undefined, summary |-> Undefined, start |-> NoStart,
      description |-> Undefined, location |-> Undefined]}

\* response.data of calendar.events.list
ListResponses(items, n) ==
    {[hasData |-> FALSE, hasItems |-> FALSE, items |-> <<>>],
     [hasData |-> TRUE, hasItems |-> FALSE, items |-> <<>>]}
        \cup [hasData : {TRUE}, hasItems : {TRUE}, items : SeqsUpTo(items, n)]

\* Instants new Date() can read
Instants(firstDay, days) ==
    {d * TicksPerDay + k : d \in firstDay..(firstDay + days - 1), k \in 0..(TicksPerDay - 1)}
AllInstants ==
    Instants(DaysFromCivil(FirstYear, 1, 1),
             DaysFromCivil(FirstYear + NumYears, 1, 1) - DaysFromCivil(FirstYear, 1, 1))
SomeInstants == Instants(DaysFromCivil(FirstYear, 3, 31), PipelineDays)

----------------------------------------------------------------------------
(* The handler's own computations *)

\* auth?.userId
OptUserId(a) == IF a.object THEN a.userId ELSE Undefined

\* Mutant: the check written as !auth
UnauthenticatedNullAuthOnly(a) == ~a.object

\* !auth?.userId
Unauthenticated(a) == ~Truthy(OptUserId(a))

\* account.provider === 'oauth_google'
IsGoogle(account) == account.provider = "oauth_google"

\* Mutant: find without the provider test
GoogleAccountAnyProvider(user) == IF Len(user.externalAccounts) > 0 THEN 1 ELSE 0

\* user.externalAccounts.find(...), as an index; 0 stands for undefined
GoogleAccount(user) ==
    LET matches == {i \in 1..Len(user.externalAccounts) : IsGoogle(user.externalAccounts[i])}
    IN  IF matches = {} THEN 0 ELSE CHOOSE i \in matches : \A j \in matches : i <= j

\* !googleAccount
NotConnected(user) == GoogleAccount(user) = 0

\* !tokenResponse.data || tokenResponse.data.length === 0
NoTokenData(tr) == ~tr.hasData \/ Len(tr.data) = 0

\* Mutant: the last token of the collection is taken
LastToken(tr) == tr.data[Len(tr.data)].token

\* tokenResponse.data[0].token
FirstToken(tr) == tr.data[1].token

\* oneMonthAgo after setMonth(now.getMonth() - 1); second is what its new Date() read
OneMonthAgo(now, second) == SetMonth(second, GetMonth(now) - 1)

\* The argument of calendar.events.list
ListParams(now, second) ==
    [calendarId |-> "primary",
     timeMin |-> ToISOString(OneMonthAgo(now, second)),
     timeMax |-> ToISOString(now),
     maxResults |-> MaxResults, singleEvents |-> TRUE, orderBy |-> "startTime"]

\* event.start?.dateTime, event.start?.date
StartDateTime(event) == IF event.start.defined THEN event.start.dateTime ELSE Undefined
StartDate(event) == IF event.start.defined THEN event.start.date ELSE Undefined

\* Mutant: ?? in place of ||, so that only null and undefined fall back
Nullish(a, b) == IF a \in {Undefined, Null} THEN b ELSE a
MapEventNullish(event) ==
    [id |-> Nullish(event.id, ""),
     name |-> Nullish(event.summary, "Untitled Event"),
     date |-> Nullish(Nullish(StartDateTime(event), StartDate(event)), ""),
     description |-> Nullish(event.description, ""),
     location |-> Nullish(event.location, "")]

\* The callback of response.data.items?.map
MapEvent(event) ==
    [id |-> OrElse(event.id, ""),
     name |-> OrElse(event.summary, "Untitled Event"),
     date |-> OrElse(OrElse(StartDateTime(event), StartDate(event)), ""),
     description |-> OrElse(event.description, ""),
     location |-> OrElse(event.location, "")]

\* Mutant: items without an id are filtered out before the mapping
HasId(event) == Truthy(event.id)
MapEventsSkippingIdless(data) ==
    IF data.hasItems
    THEN LET kept == SelectSeq(data.items, HasId)
         IN  [i \in 1..Len(kept) |-> [id |-> kept[i].id,
                                       name |-> OrElse(kept[i].summary, "Untitled Event"),
                                       date |-> "", description |-> "", location |-> ""]]
    ELSE <<>>

\* response.data.items?.map(...) || []
MapEvents(data) ==
    IF data.hasItems THEN [i \in 1..Len(data.items) |-> MapEvent(data.items[i])] ELSE <<>>

\* error && typeof error === 'object' && 'response' in error
HasResponseProperty(e) == e.type = "object" /\ e.hasResponse

\* error.response?.data
ResponseData(e) == IF e.response.defined THEN e.response.data ELSE Undefined

\* error.response?.status
ResponseStatus(e) == IF e.response.defined THEN e.response.status ELSE Undefined

\* Mutant: the message taken from anything that has one
ErrorMessageDuckTyped(e) == IF e.message # Undefined THEN e.message ELSE "Unknown error"

\* error instanceof Error ? error.message : 'Unknown error'
ErrorMessage(e) == IF e.isError THEN e.message ELSE "Unknown error"

\* Mutant: details echoed unless NODE_ENV is 'production'
ErrorDetailsUnlessProduction(env, e) ==
    IF env # "production"
    THEN IF e.type = "object" /\ e.hasResponse
         THEN (IF e.response.defined THEN e.response.data ELSE Undefined)
         ELSE Undefined
    ELSE Undefined

\* The details property of the 500 body, before serialisation
ErrorDetails(env, e) ==
    IF env = "development"
    THEN IF HasResponseProperty(e) THEN ResponseData(e) ELSE Undefined
    ELSE Undefined

\* c.json(body, status); kind is the JSON value's kind
JsonResponse(kind, body, status) == [status |-> status, kind |-> kind, body |-> body]

UnauthorizedResponse ==
    JsonResponse("object",
        JsonObject([error |-> "Unauthorized",
                    message |-> "You must be logged in to view events."]), 401)

NotConnectedResponse ==
    JsonResponse("object",
        JsonObject([error |-> "Not Connected",
                    message |-> "Please connect your Google account to view calendar events."]),
        403)

\* Mutant: the No Token branch answering 401
NoTokenResponseStatus401 ==
    JsonResponse("object",
        JsonObject([error |-> "No Token",
                    message |-> "Unable to get Google access token. Please reconnect your Google account."]),
        401)

NoTokenResponse ==
    JsonResponse("object",
        JsonObject([error |-> "No Token",
                    message |-> "Unable to get Google access token. Please reconnect your Google account."]),
        403)

EventsResponse(events) == JsonResponse("array", events, 200)

FailedResponse(env, e) ==
    JsonResponse("object",
        JsonObject([error |-> "Failed to fetch calendar events",
                    message |-> ErrorMessage(e),
                    details |-> ErrorDetails(env, e)]), 500)

\* Mutant: the API error details logged in development only
CatchLogLinesDevelopmentOnly(e) ==
    <<[line |-> "Error fetching calendar events:", value |-> e]>>
        \o (IF nodeEnv = "development" /\ e.type = "object" /\ e.hasResponse
            THEN <<[line |-> "API Error details:",
                    value |-> [status |-> ResponseStatus(e), data |-> ResponseData(e)]]>>
            ELSE <<>>)

\* The console.error lines of the catch block
CatchLogLines(e) ==
    <<[line |-> "Error fetching calendar events:", value |-> e]>>
        \o (IF HasResponseProperty(e)
            THEN <<[line |-> "API Error details:",
                    value |-> [status |-> ResponseStatus(e), data |-> ResponseData(e)]]>>
            ELSE <<>>)

----------------------------------------------------------------------------
(* Steps of one request *)

Reqs == DOMAIN pc

Call(r, fn, arg) == calls' = [calls EXCEPT ![r] = Append(@, [fn |-> fn, arg |-> arg])]

Settle(r, fn, ok, value) ==
    results' = [results EXCEPT ![r] = Append(@, [fn |-> fn, ok |-> ok, value |-> value])]

\* Mutant: c.json(...) without the return
RespondWithoutReturn(r, response) ==
    /\ responses' = [responses EXCEPT ![r] = Append(@, response)]
    /\ UNCHANGED pc

\* return c.json(...)
Respond(r, response) ==
    /\ responses' = [responses EXCEPT ![r] = Append(@, response)]
    /\ pc' = [pc EXCEPT ![r] = "done"]

\* The catch block
Catch(r, e) ==
    /\ logs' = [logs EXCEPT ![r] = @ \o CatchLogLines(e)]
    /\ Respond(r, FailedResponse(nodeEnv, e))

\* getAuth, the credential check, and the call of getUser
HandleRequest(r, authObjects) ==
    /\ pc[r] = "start"
    /\ \E a \in authObjects :
        /\ auth' = [auth EXCEPT ![r] = a]
        /\ IF Unauthenticated(a)
           THEN Respond(r, UnauthorizedResponse) /\ UNCHANGED calls
           ELSE /\ Call(r, "getUser", OptUserId(a))
                /\ pc' = [pc EXCEPT ![r] = "awaitGetUser"]
                /\ UNCHANGED responses
    /\ UNCHANGED <<query, nodeEnv, accessToken, clockReads, results, logs>>

\* Mutant: auth kept in one module-level variable that every request overwrites
GetUserResolvesSharedAuth(r, users) ==
    /\ pc[r] = "awaitGetUser"
    /\ \E user \in users, q \in {x \in DOMAIN pc : pc[x] # "start"} :
        /\ results' = [results EXCEPT ![r] =
                         Append(@, [fn |-> "getUser", ok |-> TRUE, value |-> user])]
        /\ IF \A i \in 1..Len(user.externalAccounts) :
                  user.externalAccounts[i].provider # "oauth_google"
           THEN /\ responses' = [responses EXCEPT ![r] = Append(@, NotConnectedResponse)]
                /\ pc' = [pc EXCEPT ![r] = "done"]
                /\ UNCHANGED calls
           ELSE /\ calls' = [calls EXCEPT ![r] =
                               Append(@, [fn |-> "getUserOauthAccessToken",
                                          arg |-> [userId |-> OptUserId(auth[q]),
                                                   provider |-> "oauth_google"]])]
                /\ pc' = [pc EXCEPT ![r] = "awaitToken"]
                /\ UNCHANGED responses
    /\ UNCHANGED <<query, nodeEnv, auth, accessToken, clockReads, logs>>

\* getUser resolved: the account lookup, and the call of getUserOauthAccessToken
GetUserResolves(r, users) ==
    /\ pc[r] = "awaitGetUser"
    /\ \E user \in users :
        /\ Settle(r, "getUser", TRUE, user)
        /\ IF NotConnected(user)
           THEN Respond(r, NotConnectedResponse) /\ UNCHANGED calls
           ELSE /\ Call(r, "getUserOauthAccessToken",
                        [userId |-> OptUserId(auth[r]), provider |-> "oauth_google"])
                /\ pc' = [pc EXCEPT ![r] = "awaitToken"]
                /\ UNCHANGED responses
    /\ UNCHANGED <<query, nodeEnv, auth, accessToken, clockReads, logs>>

\* Mutant: a rejected getUser is called again
GetUserRejectsWithRetry(r, thrown) ==
    /\ pc[r] = "awaitGetUser"
    /\ \E e \in thrown :
        /\ results' = [results EXCEPT ![r] = Append(@, [fn |-> "getUser", ok |-> FALSE, value |-> e])]
        /\ calls' = [calls EXCEPT ![r] = Append(@, [fn |-> "getUser", arg |-> auth[r].userId])]
    /\ UNCHANGED <<query, nodeEnv, pc, auth, accessToken, clockReads, logs, responses>>

\* getUser rejected
GetUserRejects(r, thrown) ==
    /\ pc[r] = "awaitGetUser"
    /\ \E e \in thrown : Settle(r, "getUser", FALSE, e) /\ Catch(r, e)
    /\ UNCHANGED <<query, nodeEnv, auth, accessToken, clockReads, calls>>

\* getUserOauthAccessToken resolved: the token check, the client, the window,
\* and the call of calendar.events.list
TokenResolves(r, tokenResponses, instants) ==
    /\ pc[r] = "awaitToken"
    /\ \E tr \in tokenResponses :
        /\ Settle(r, "getUserOauthAccessToken", TRUE, tr)
        /\ IF NoTokenData(tr)
           THEN /\ Respond(r, NoTokenResponse)
                /\ UNCHANGED <<accessToken, clockReads, calls>>
           ELSE \E now \in instants, skew \in 0..MaxClockSkew :
                /\ accessToken' = [accessToken EXCEPT ![r] = FirstToken(tr)]
                /\ clockReads' = [clockReads EXCEPT ![r] = <<now, now + skew>>]
                /\ Call(r, "events.list",
                        [access_token |-> FirstToken(tr),
                         params |-> ListParams(now, now + skew)])
                /\ pc' = [pc EXCEPT ![r] = "awaitList"]
                /\ UNCHANGED responses
    /\ UNCHANGED <<query, nodeEnv, auth, logs>>

\* getUserOauthAccessToken rejected
TokenRejects(r, thrown) ==
    /\ pc[r] = "awaitToken"
    /\ \E e \in thrown : Settle(r, "getUserOauthAccessToken", FALSE, e) /\ Catch(r, e)
    /\ UNCHANGED <<query, nodeEnv, auth, accessToken, clockReads, calls>>

\* A usable token arrived and building the Google client threw
ClientSetupThrows(r, tokenResponses, thrown) ==
    /\ pc[r] = "awaitToken"
    /\ \E tr \in tokenResponses, e \in thrown :
        /\ ~NoTokenData(tr)
        /\ accessToken' = [accessToken EXCEPT ![r] = FirstToken(tr)]
        /\ results' = [results EXCEPT ![r] =
                         @ \o <<[fn |-> "getUserOauthAccessToken", ok |-> TRUE, value |-> tr],
                                [fn |-> "google.auth.OAuth2", ok |-> FALSE, value |-> e]>>]
        /\ Catch(r, e)
    /\ UNCHANGED <<query, nodeEnv, auth, clockReads, calls>>

\* calendar.events.list resolved: the mapping and the 200 response
ListResolves(r, listResponses) ==
    /\ pc[r] = "awaitList"
    /\ \E data \in listResponses :
        /\ Settle(r, "events.list", TRUE, data)
        /\ IF data.hasData
           THEN Respond(r, EventsResponse(MapEvents(data))) /\ UNCHANGED logs
           ELSE Catch(r, ItemsTypeError)
    /\ UNCHANGED <<query, nodeEnv, auth, accessToken, clockReads, calls>>

\* calendar.events.list rejected
ListRejects(r, thrown) ==
    /\ pc[r] = "awaitList"
    /\ \E e \in thrown : Settle(r, "events.list", FALSE, e) /\ Catch(r, e)
    /\ UNCHANGED <<query, nodeEnv, auth, accessToken, clockReads, calls>>

----------------------------------------------------------------------------
(* The frontend: queryFn of useEvents *)

\* The query function has not been invoked
IdleQuery ==
    [pc |-> "idle", sent |-> 0, received |-> FALSE, bodyRead |-> FALSE,
     data |-> [kind |-> "none", value |-> <<>>], error |-> Undefined]

\* Mutant: only server errors count as failures
ResOkBelow500(status) == status < 500

\* Response.ok of the Fetch API
ResOk(status) == status >= 200 /\ status <= 299

\* client.api.events.$get(): the request leaves for the backend
QueryFnStart(r) ==
    /\ query.pc = "idle"
    /\ pc[r] = "unsent"
    /\ query' = [query EXCEPT !.pc = "awaitResponse", !.sent = @ + 1]
    /\ pc' = [pc EXCEPT ![r] = "start"]
    /\ UNCHANGED <<nodeEnv, auth, accessToken, clockReads, calls, results, logs, responses>>

\* The response arrived: the res.ok test, then either the throw or res.json()
QueryFnResponse(r) ==
    /\ query.pc = "awaitResponse"
    /\ pc[r] = "done"
    /\ LET res == responses[r][1]
       IN  IF ResOk(res.status)
           THEN query' = [query EXCEPT !.pc = "resolved", !.received = TRUE,
                                       !.bodyRead = TRUE,
                                       !.data = [kind |-> res.kind, value |-> res.body]]
           ELSE query' = [query EXCEPT !.pc = "rejected", !.received = TRUE,
                                       !.error = "Failed to fetch events"]
    /\ UNCHANGED <<nodeEnv, pc, auth, accessToken, clockReads, calls, results, logs, responses>>

\* The fetch itself rejected: no response reached the browser
QueryFnFetchRejects ==
    /\ query.pc = "awaitResponse"
    /\ query' = [query EXCEPT !.pc = "rejected", !.error = "Failed to fetch"]
    /\ UNCHANGED <<nodeEnv, pc, auth, accessToken, clockReads, calls, results, logs, responses>>

----------------------------------------------------------------------------
(* Specifications *)

\* n requests arrive at a server running under one of envs
Boot(n, envs) ==
    /\ nodeEnv \in envs
    /\ pc = [r \in 1..n |-> "start"]
    /\ auth = [r \in 1..n |-> [object |-> FALSE, userId |-> Undefined]]
    /\ accessToken = [r \in 1..n |-> Undefined]
    /\ clockReads = [r \in 1..n |-> <<>>]
    /\ calls = [r \in 1..n |-> <<>>]
    /\ results = [r \in 1..n |-> <<>>]
    /\ logs = [r \in 1..n |-> <<>>]
    /\ responses = [r \in 1..n |-> <<>>]
    /\ query = IdleQuery

\* One request, every outcome of every collaborator
Init == Boot(1, NodeEnvs)

Next ==
    \/ \E r \in Reqs : HandleRequest(r, AuthObjects)
    \/ \E r \in Reqs : GetUserResolves(r, Users)
    \/ \E r \in Reqs : GetUserRejects(r, ThrownValues)
    \/ \E r \in Reqs : TokenResolves(r, TokenResponses, SomeInstants)
    \/ \E r \in Reqs : TokenRejects(r, ThrownValues)
    \/ \E r \in Reqs : ClientSetupThrows(r, TokenResponses, ThrownValues)
    \/ \E r \in Reqs : ListResolves(r, ListResponses(SomeItems, MaxItems))
    \/ \E r \in Reqs : ListRejects(r, ThrownValues)

Spec == Init /\ [][Next]_vars

\* Narrower draws, for the runs that enumerate the clock or the item shapes
SignedIn == {a \in AuthObjects : a.userId = "user_1"}
SomeUsers == {u \in Users : Len(u.externalAccounts) <= 1}
SomeTokenResponses == {tr \in TokenResponses : Len(tr.data) <= 1}

\* One request, read at every instant of the modelled years
InitWindow == Boot(1, {"production"})

NextWindow ==
    \/ \E r \in Reqs : HandleRequest(r, SignedIn)
    \/ \E r \in Reqs : GetUserResolves(r, SomeUsers)
    \/ \E r \in Reqs : GetUserRejects(r, OneThrown)
    \/ \E r \in Reqs : TokenResolves(r, SomeTokenResponses, AllInstants)
    \/ \E r \in Reqs : TokenRejects(r, OneThrown)
    \/ \E r \in Reqs : ClientSetupThrows(r, SomeTokenResponses, OneThrown)
    \/ \E r \in Reqs : ListResolves(r, ListResponses(SomeItems, 0))
    \/ \E r \in Reqs : ListRejects(r, OneThrown)

SpecWindow == InitWindow /\ [][NextWindow]_vars

\* One request, answered with every item shape
InitMap == Boot(1, {"production"})

NextMap ==
    \/ \E r \in Reqs : HandleRequest(r, SignedIn)
    \/ \E r \in Reqs : GetUserResolves(r, SomeUsers)
    \/ \E r \in Reqs : GetUserRejects(r, OneThrown)
    \/ \E r \in Reqs : TokenResolves(r, SomeTokenResponses,
                                    Instants(DaysFromCivil(FirstYear, 1, 1), 1))
    \/ \E r \in Reqs : TokenRejects(r, OneThrown)
    \/ \E r \in Reqs : ClientSetupThrows(r, SomeTokenResponses, OneThrown)
    \/ \E r \in Reqs : ListResolves(r, ListResponses(AllItems, 1))
    \/ \E r \in Reqs : ListRejects(r, OneThrown)

SpecMap == InitMap /\ [][NextMap]_vars

\* Two requests in flight, their steps interleaved in every order
AnyUserId == {a \in AuthObjects : a.object}
TwoThrown == {e \in ThrownValues : e.message \in {"Invalid Credentials", "socket hang up"}}
OneDay == Instants(DaysFromCivil(FirstYear, 1, 1), 1)

InitConc == Boot(2, {"development"})

\* What request r can do next, whatever the other request is doing
StepConc(r) ==
    \/ HandleRequest(r, AnyUserId)
    \/ GetUserResolves(r, SomeUsers)
    \/ GetUserRejects(r, TwoThrown)
    \/ TokenResolves(r, SomeTokenResponses, OneDay)
    \/ TokenRejects(r, TwoThrown)
    \/ ClientSetupThrows(r, SomeTokenResponses, TwoThrown)
    \/ ListResolves(r, ListResponses(SomeItems, 1))
    \/ ListRejects(r, TwoThrown)

NextConc ==
    \/ \E r \in Reqs : HandleRequest(r, AnyUserId)
    \/ \E r \in Reqs : GetUserResolves(r, SomeUsers)
    \/ \E r \in Reqs : GetUserRejects(r, TwoThrown)
    \/ \E r \in Reqs : TokenResolves(r, SomeTokenResponses, OneDay)
    \/ \E r \in Reqs : TokenRejects(r, TwoThrown)
    \/ \E r \in Reqs : ClientSetupThrows(r, SomeTokenResponses, TwoThrown)
    \/ \E r \in Reqs : ListResolves(r, ListResponses(SomeItems, 1))
    \/ \E r \in Reqs : ListRejects(r, TwoThrown)

SpecConc == InitConc /\ [][NextConc]_vars

\* One invocation of the query function against the backend
InitFrontend ==
    /\ nodeEnv \in {"production", "development"}
    /\ pc = [r \in 1..1 |-> "unsent"]
    /\ auth = [r \in 1..1 |-> [object |-> FALSE, userId |-> Undefined]]
    /\ accessToken = [r \in 1..1 |-> Undefined]
    /\ clockReads = [r \in 1..1 |-> <<>>]
    /\ calls = [r \in 1..1 |-> <<>>]
    /\ results = [r \in 1..1 |-> <<>>]
    /\ logs = [r \in 1..1 |-> <<>>]
    /\ responses = [r \in 1..1 |-> <<>>]
    /\ query = IdleQuery

NextFrontend ==
    \/ \E r \in Reqs : QueryFnStart(r)
    \/ \E r \in Reqs : QueryFnResponse(r)
    \/ QueryFnFetchRejects
    \/ \E r \in Reqs : HandleRequest(r, AuthObjects)
    \/ \E r \in Reqs : GetUserResolves(r, SomeUsers)
    \/ \E r \in Reqs : GetUserRejects(r, TwoThrown)
    \/ \E r \in Reqs : TokenResolves(r, SomeTokenResponses, OneDay)
    \/ \E r \in Reqs : TokenRejects(r, TwoThrown)
    \/ \E r \in Reqs : ClientSetupThrows(r, SomeTokenResponses, TwoThrown)
    \/ \E r \in Reqs : ListResolves(r, ListResponses(SomeItems, MaxItems))
    \/ \E r \in Reqs : ListRejects(r, TwoThrown)

SpecFrontend == InitFrontend /\ [][NextFrontend]_vars

----------------------------------------------------------------------------
(* Vocabulary of the properties *)

Done(r) == pc[r] = "done"

\* The names of the external calls request r made, in order
CallFns(r) == [i \in 1..Len(calls[r]) |-> calls[r][i].fn]

\* Request r was answered once, with this status and this error category
AnsweredError(r, status, category) ==
    /\ Done(r)
    /\ Len(responses[r]) = 1
    /\ responses[r][1].status = status
    /\ responses[r][1].kind = "object"
    /\ {"error", "message"} \subseteq DOMAIN responses[r][1].body
    /\ responses[r][1].body["error"] = category

\* The k-th external call of request r settled, successfully or not
Resolved(r, k, fn) == Len(results[r]) >= k /\ results[r][k].fn = fn /\ results[r][k].ok
Failed(r, k) == Len(results[r]) >= k /\ ~results[r][k].ok

\* Something threw inside the try block of request r: a call rejected, the
\* client could not be built, or response.data was not there to be read
Threw(r) ==
    /\ results[r] # <<>>
    /\ LET last == results[r][Len(results[r])]
       IN  ~last.ok \/ (last.fn = "events.list" /\ ~last.value.hasData)

\* The value that was thrown
ThrownOf(r) ==
    LET last == results[r][Len(results[r])]
    IN  IF last.ok
        THEN [type |-> "object", isError |-> TRUE,
              message |-> "Cannot read properties of undefined (reading 'items')",
              hasResponse |-> FALSE, response |-> NoResponse]
        ELSE last.value

\* The thrown value is an object whose response has a data payload
CarriesPayload(e) ==
    e.type = "object" /\ e.hasResponse /\ e.response.defined /\ e.response.data # Undefined

ExternalFns == <<"getUser", "getUserOauthAccessToken", "events.list">>

\* The resolved auth carries no user id
NoUserId(a) == ~a.object \/ a.userId \in {Undefined, Null, ""}

----------------------------------------------------------------------------
(* C1: a request whose resolved auth has no userId is answered 401           *)
(* 'Unauthorized' with a message and makes no external call; an external     *)
(* call is only ever made by a request whose auth carries a userId.          *)
C1_UnauthorizedBeforeAnyCall ==
    \A r \in Reqs :
        /\ (pc[r] # "start" /\ NoUserId(auth[r])) =>
               /\ AnsweredError(r, 401, "Unauthorized")
               /\ DOMAIN responses[r][1].body = {"error", "message"}
               /\ calls[r] = <<>>
               /\ results[r] = <<>>
        /\ calls[r] # <<>> => ~NoUserId(auth[r])

C1_Witness ==
    \E r \in Reqs : Done(r) /\ auth[r].object /\ auth[r].userId = Null
                    /\ Len(responses[r]) = 1

(* C2: when getUser resolved with a user none of whose externalAccounts has  *)
(* provider 'oauth_google', the request is answered exactly 403 'Not         *)
(* Connected' and getUser is the only external call it made.                 *)
C2_NotConnected ==
    \A r \in Reqs :
        (/\ Resolved(r, 1, "getUser")
         /\ \A i \in 1..Len(results[r][1].value.externalAccounts) :
                results[r][1].value.externalAccounts[i].provider # "oauth_google") =>
            /\ AnsweredError(r, 403, "Not Connected")
            /\ CallFns(r) = <<"getUser">>

C2_Witness ==
    \E r \in Reqs :
        /\ Resolved(r, 1, "getUser")
        /\ Len(results[r][1].value.externalAccounts) = 1
        /\ results[r][1].value.externalAccounts[1].provider = "oauth_github"
        /\ Done(r)

(* C3: when the token request resolved with data absent or empty, the        *)
(* request is answered exactly 403 'No Token' and calendar.events.list is    *)
(* never called.                                                             *)
C3_NoToken ==
    \A r \in Reqs :
        (/\ Resolved(r, 2, "getUserOauthAccessToken")
         /\ (~results[r][2].value.hasData \/ results[r][2].value.data = <<>>)) =>
            /\ AnsweredError(r, 403, "No Token")
            /\ CallFns(r) = <<"getUser", "getUserOauthAccessToken">>

C3_Witness ==
    \E r \in Reqs :
        /\ Resolved(r, 2, "getUserOauthAccessToken")
        /\ results[r][2].value.hasData
        /\ results[r][2].value.data = <<>>
        /\ Done(r)

(* C4: when the list call resolved with N items, the request is answered     *)
(* once, 200, with an array of N events, the i-th being the mapping of the   *)
(* i-th item; a response without an items collection gives 200 and [].       *)
C4_EveryItemInOrder ==
    \A r \in Reqs :
        (Resolved(r, 3, "events.list") /\ results[r][3].value.hasData) =>
            LET data == results[r][3].value
                n == IF data.hasItems THEN Len(data.items) ELSE 0
            IN  /\ Done(r)
                /\ Len(responses[r]) = 1
                /\ responses[r][1].status = 200
                /\ responses[r][1].kind = "array"
                /\ Len(responses[r][1].body) = n
                /\ \A i \in 1..n : responses[r][1].body[i] = MapEvent(data.items[i])

C4_Witness ==
    \E r \in Reqs :
        /\ Resolved(r, 3, "events.list")
        /\ results[r][3].value.hasItems
        /\ Len(results[r][3].value.items) = MaxItems
        /\ results[r][3].value.items[1].id = Undefined
        /\ results[r][3].value.items[2].id = "e1"
        /\ Len(responses[r]) = 1

(* C5 as stated: every field of an event equals the upstream value when      *)
(* the field is present, and the fixed fallback only when it is absent       *)
(* (undefined or null).                                                      *)
Present(v) == v \notin {Undefined, Null}

C5_FallbackOnlyWhenAbsent ==
    \A r \in Reqs :
        (Resolved(r, 3, "events.list") /\ results[r][3].value.hasItems) =>
            \A i \in 1..Len(results[r][3].value.items) :
                LET e == results[r][3].value.items[i]
                    o == responses[r][1].body[i]
                IN  /\ o.id = (IF Present(e.id) THEN e.id ELSE "")
                    /\ o.name = (IF Present(e.summary) THEN e.summary ELSE "Untitled Event")
                    /\ o.date = (IF e.start.defined /\ Present(e.start.dateTime)
                                 THEN e.start.dateTime
                                 ELSE IF e.start.defined /\ Present(e.start.date)
                                      THEN e.start.date ELSE "")
                    /\ o.description = (IF Present(e.description) THEN e.description ELSE "")
                    /\ o.location = (IF Present(e.location) THEN e.location ELSE "")

(* C5 amended: every event has the five fields; each equals the upstream     *)
(* value when that value is a non-empty string, and the fixed fallback when  *)
(* it is undefined, null or the empty string (date: start.dateTime, else     *)
(* start.date, else '').  The two worked examples of the claim hold.         *)
Given(v) == v \notin {Undefined, Null, ""}

C5_FallbackWhenAbsentOrEmpty ==
    \A r \in Reqs :
        (Resolved(r, 3, "events.list") /\ results[r][3].value.hasItems) =>
            \A i \in 1..Len(results[r][3].value.items) :
                LET e == results[r][3].value.items[i]
                    o == responses[r][1].body[i]
                IN  /\ DOMAIN o = {"id", "name", "date", "description", "location"}
                    /\ o.id = (IF Given(e.id) THEN e.id ELSE "")
                    /\ o.name = (IF Given(e.summary) THEN e.summary ELSE "Untitled Event")
                    /\ o.date = (IF e.start.defined /\ Given(e.start.dateTime)
                                 THEN e.start.dateTime
                                 ELSE IF e.start.defined /\ Given(e.start.date)
                                      THEN e.start.date ELSE "")
                    /\ o.description = (IF Given(e.description) THEN e.description ELSE "")
                    /\ o.location = (IF Given(e.location) THEN e.location ELSE "")
                    /\ (e = [id |-> "e1", summary |-> "Meet",
                             start |-> [defined |-> TRUE, dateTime |-> "2025-06-01T10:00:00Z",
                                        date |-> Undefined],
                             description |-> "d", location |-> "l"]) =>
                           o = [id |-> "e1", name |-> "Meet", date |-> "2025-06-01T10:00:00Z",
                                description |-> "d", location |-> "l"]
                    /\ (/\ e.summary = Undefined /\ e.description = Undefined
                        /\ e.location = Undefined /\ e.id = "e1"
                        /\ e.start = [defined |-> TRUE, dateTime |-> Undefined,
                                      date |-> "2025-06-01"]) =>
                           o = [id |-> "e1", name |-> "Untitled Event", date |-> "2025-06-01",
                                description |-> "", location |-> ""]

C5_Witness ==
    \E r \in Reqs :
        /\ Resolved(r, 3, "events.list")
        /\ Len(results[r][3].value.items) = 1
        /\ results[r][3].value.items[1].summary = ""
        /\ results[r][3].value.items[1].start.defined
        /\ results[r][3].value.items[1].start.dateTime = ""
        /\ results[r][3].value.items[1].start.date = "2025-06-01"
        /\ Len(responses[r]) = 1
        /\ responses[r][1].body[1].name = "Untitled Event"
        /\ responses[r][1].body[1].date = "2025-06-01"

(* C6 as stated: any throw inside the try block gives exactly one response,  *)
(* 500 'Failed to fetch calendar events'; in production details is absent,   *)
(* and in every other runtime mode details is present and equal to the       *)
(* upstream payload whenever the error carries one.                          *)
C6_DetailsInEveryNonProductionMode ==
    \A r \in Reqs :
        Threw(r) =>
            /\ AnsweredError(r, 500, "Failed to fetch calendar events")
            /\ nodeEnv = "production" => "details" \notin DOMAIN responses[r][1].body
            /\ (nodeEnv # "production" /\ CarriesPayload(ThrownOf(r))) =>
                   /\ "details" \in DOMAIN responses[r][1].body
                   /\ responses[r][1].body["details"] = ThrownOf(r).response.data

(* C6 amended: any throw inside the try block gives exactly one response,    *)
(* 500 'Failed to fetch calendar events'; details is present, and equal to   *)
(* the upstream payload, exactly when NODE_ENV is 'development' and the      *)
(* error carries one; in every other mode (production, test, unset) it is    *)
(* absent.                                                                   *)
C6_DetailsOnlyInDevelopment ==
    \A r \in Reqs :
        Threw(r) =>
            /\ AnsweredError(r, 500, "Failed to fetch calendar events")
            /\ DOMAIN responses[r][1].body \subseteq {"error", "message", "details"}
            /\ IF nodeEnv = "development" /\ CarriesPayload(ThrownOf(r))
               THEN /\ "details" \in DOMAIN responses[r][1].body
                    /\ responses[r][1].body["details"] = ThrownOf(r).response.data
               ELSE "details" \notin DOMAIN responses[r][1].body

C6_Witness ==
    \E r \in Reqs :
        /\ nodeEnv = "development"
        /\ Failed(r, 3)
        /\ results[r][3].fn = "events.list"
        /\ CarriesPayload(results[r][3].value)
        /\ Len(responses[r]) = 1
        /\ "details" \in DOMAIN responses[r][1].body

(* C7: when both clock reads give the same instant, timeMax is that instant  *)
(* and timeMin lies in the calendar month just before the month of the call. *)
C7_LowerBoundInPriorMonth ==
    \A r \in Reqs :
        (Len(calls[r]) = 3 /\ clockReads[r][1] = clockReads[r][2]) =>
            LET params == calls[r][3].arg.params
                now == CivilFromDays(Day(clockReads[r][1]))
            IN  /\ params.timeMax = ToISOString(clockReads[r][1])
                /\ params.timeMin.year * 12 + params.timeMin.month
                       = now.year * 12 + now.month - 1

(* C8: a request has no response until it is done and exactly one from then  *)
(* on; that response is one of 200 with the mapping of all upstream items,   *)
(* 401 'Unauthorized', 403 'Not Connected', 403 'No Token' and 500 'Failed   *)
(* to fetch calendar events', each arising from its own trigger; an error    *)
(* object never carries events and an event array never carries an error.    *)
C8_OneOfFiveOutcomes ==
    \A r \in Reqs :
        /\ Len(responses[r]) = (IF Done(r) THEN 1 ELSE 0)
        /\ Done(r) =>
            LET resp == responses[r][1]
            IN  /\ resp.kind \in {"array", "object"}
                /\ resp.kind = "array" <=> resp.status = 200
                /\ resp.kind = "array" =>
                       /\ Resolved(r, 3, "events.list")
                       /\ results[r][3].value.hasData
                       /\ Len(resp.body) = (IF results[r][3].value.hasItems
                                            THEN Len(results[r][3].value.items) ELSE 0)
                /\ resp.kind = "object" =>
                       /\ DOMAIN resp.body \subseteq {"error", "message", "details"}
                       /\ \/ AnsweredError(r, 401, "Unauthorized") /\ results[r] = <<>>
                                /\ NoUserId(auth[r])
                          \/ AnsweredError(r, 403, "Not Connected") /\ Len(results[r]) = 1
                                /\ Resolved(r, 1, "getUser")
                          \/ AnsweredError(r, 403, "No Token") /\ Len(results[r]) = 2
                                /\ Resolved(r, 2, "getUserOauthAccessToken")
                          \/ AnsweredError(r, 500, "Failed to fetch calendar events")
                                /\ Threw(r)

C8_Witness ==
    \E r \in Reqs :
        /\ Done(r)
        /\ responses[r][1].status = 200
        /\ Len(responses[r][1].body) = MaxItems

(* C9: the external calls a request made are an initial part of getUser,     *)
(* getUserOauthAccessToken, events.list, each at most once; once one of      *)
(* them has failed it is the last thing that settled, the request is done    *)
(* with its one response, and no call was made after it.                     *)
C9_NoRetry ==
    \A r \in Reqs :
        /\ Len(calls[r]) <= 3
        /\ \A i \in 1..Len(calls[r]) : calls[r][i].fn = ExternalFns[i]
        /\ \A k \in 1..Len(results[r]) :
               ~results[r][k].ok =>
                   /\ k = Len(results[r])
                   /\ Done(r)
                   /\ Len(responses[r]) = 1
                   /\ responses[r][1].status = 500
                   /\ Len(calls[r]) <= k

C9_Witness ==
    \E r \in Reqs :
        /\ Failed(r, 2)
        /\ results[r][2].fn = "getUserOauthAccessToken"
        /\ Done(r)
        /\ Len(calls[r]) = 2

(* C10: the message of every 500 response is there; it is the thrown         *)
(* value's own message when the value is an Error, and 'Unknown error' for   *)
(* any other thrown value.                                                   *)
C10_MessageOf500 ==
    \A r \in Reqs :
        (Done(r) /\ responses[r][1].status = 500) =>
            /\ Threw(r)
            /\ "message" \in DOMAIN responses[r][1].body
            /\ responses[r][1].body["message"] =
                   (IF ThrownOf(r).isError THEN ThrownOf(r).message ELSE "Unknown error")

C10_Witness ==
    \E r \in Reqs :
        /\ Done(r)
        /\ Failed(r, 1)
        /\ ~results[r][1].value.isError
        /\ results[r][1].value.type = "object"
        /\ results[r][1].value.message = "not an Error"
        /\ responses[r][1].body["message"] = "Unknown error"

(* C11: the external calls of a request are made in the order getUser,       *)
(* getUserOauthAccessToken, events.list; each is made only when every        *)
(* earlier one has resolved and passed its check (a linked 'oauth_google'    *)
(* account, a non-empty token collection); the access token handed to the    *)
(* calendar call is the first element of the token collection.               *)
C11_SequentialFirstToken ==
    \A r \in Reqs :
        /\ Len(calls[r]) <= 3
        /\ \A i \in 1..Len(calls[r]) : calls[r][i].fn = ExternalFns[i]
        /\ Len(results[r]) >= Len(calls[r]) - 1
        /\ \A i \in 1..(Len(calls[r]) - 1) : Resolved(r, i, ExternalFns[i])
        /\ Len(calls[r]) >= 2 =>
               \E i \in 1..Len(results[r][1].value.externalAccounts) :
                   results[r][1].value.externalAccounts[i].provider = "oauth_google"
        /\ Len(calls[r]) = 3 =>
               /\ results[r][2].value.hasData
               /\ Len(results[r][2].value.data) >= 1
               /\ calls[r][3].arg.access_token = results[r][2].value.data[1].token
               /\ accessToken[r] = results[r][2].value.data[1].token

C11_Witness ==
    \E r \in Reqs :
        /\ Len(calls[r]) = 3
        /\ Len(results[r][2].value.data) = 2
        /\ results[r][2].value.data[1].token = "tok_b"
        /\ results[r][2].value.data[2].token = "tok_a"
        /\ calls[r][3].arg.access_token = "tok_b"

(* C12: with two requests in flight and their steps interleaved in every     *)
(* order, each call of a request carries that request's own user id and      *)
(* its own first token, each response is the one its own auth and its own    *)
(* upstream results determine, and a request that is not done always has a   *)
(* step it can take, wherever the other request is suspended.                *)
C12_OwnDataOnly ==
    \A r \in Reqs :
        /\ Len(calls[r]) >= 1 => calls[r][1].arg = auth[r].userId
        /\ Len(calls[r]) >= 2 => calls[r][2].arg.userId = auth[r].userId
        /\ Len(calls[r]) = 3 =>
               calls[r][3].arg.access_token = results[r][2].value.data[1].token
        /\ Done(r) =>
               LET resp == responses[r][1]
               IN  /\ resp.status = 401 <=> NoUserId(auth[r])
                   /\ resp.status = 403 =>
                          IF Len(results[r]) = 1
                          THEN /\ resp.body["error"] = "Not Connected"
                               /\ \A i \in 1..Len(results[r][1].value.externalAccounts) :
                                      results[r][1].value.externalAccounts[i].provider
                                          # "oauth_google"
                          ELSE /\ resp.body["error"] = "No Token"
                               /\ Len(results[r]) = 2
                               /\ results[r][2].value.data = <<>>
                   /\ resp.status = 500 =>
                          /\ Threw(r)
                          /\ resp.body["message"] = ThrownOf(r).message
                          /\ CarriesPayload(ThrownOf(r)) =>
                                 resp.body["details"] = ThrownOf(r).response.data
                   /\ resp.status = 200 =>
                          /\ Resolved(r, 3, "events.list")
                          /\ Len(resp.body) = Len(results[r][3].value.items)
                          /\ \A i \in 1..Len(resp.body) :
                                 resp.body[i] = MapEvent(results[r][3].value.items[i])
        /\ ~Done(r) => ENABLED StepConc(r)

C12_Witness ==
    /\ Done(1)
    /\ responses[1][1].status = 200
    /\ Len(responses[1][1].body) = 1
    /\ auth[1].userId = "user_1"
    /\ auth[2].userId = "user_2"
    /\ pc[2] = "awaitToken"
    /\ calls[1][3].arg.access_token = "tok_a"

(* C13: a request answered 500 has logged the thrown value itself, and, in   *)
(* every runtime mode, the upstream body whenever the thrown value carries   *)
(* one; no state has the 500 response without these lines.  A request that   *)
(* is not done, or is answered 200, 401 or 403, has logged nothing and has   *)
(* made no call other than the three of the pipeline.                        *)
C13_LogsOnlyOn500 ==
    \A r \in Reqs :
        /\ (Len(responses[r]) >= 1 /\ responses[r][1].status = 500) =>
               /\ Len(logs[r]) >= 1
               /\ logs[r][1].line = "Error fetching calendar events:"
               /\ logs[r][1].value = ThrownOf(r)
               /\ CarriesPayload(ThrownOf(r)) =>
                      /\ Len(logs[r]) = 2
                      /\ logs[r][2].line = "API Error details:"
                      /\ logs[r][2].value.data = ThrownOf(r).response.data
                      /\ logs[r][2].value.status = ThrownOf(r).response.status
        /\ (Len(responses[r]) = 0 \/ responses[r][1].status \in {200, 401, 403}) =>
               /\ logs[r] = <<>>
               /\ \A i \in 1..Len(calls[r]) : calls[r][i].fn = ExternalFns[i]

C13_Witness ==
    \E r \in Reqs :
        /\ nodeEnv = "production"
        /\ Failed(r, 3)
        /\ Done(r)
        /\ "details" \notin DOMAIN responses[r][1].body
        /\ Len(logs[r]) = 2
        /\ logs[r][2].value.data = "upstream body"

(* C14: for every pair of instants the two clock reads can give, the         *)
(* timeMin handed to the calendar list call is strictly earlier than its     *)
(* timeMax.                                                                  *)
IsoBefore(a, b) ==
    \/ a.year < b.year
    \/ a.year = b.year /\ a.month < b.month
    \/ a.year = b.year /\ a.month = b.month /\ a.day < b.day
    \/ a.year = b.year /\ a.month = b.month /\ a.day = b.day /\ a.tick < b.tick

C14_LowerBoundBeforeUpper ==
    \A r \in Reqs :
        Len(calls[r]) = 3 =>
            IsoBefore(calls[r][3].arg.params.timeMin, calls[r][3].arg.params.timeMax)

(* C15: one invocation of the query function sends exactly one request.      *)
(* When the backend's response is not ok (401, 403, 500) the function        *)
(* rejects with 'Failed to fetch events' and never reads the body; when it   *)
(* is ok the function resolves with the parsed event array.  It never        *)
(* resolves with an error object as data.                                    *)
C15_QueryFailsOnNonOk ==
    /\ query.sent = (IF query.pc = "idle" THEN 0 ELSE 1)
    /\ query.received =>
           \E r \in Reqs :
               /\ Done(r)
               /\ IF responses[r][1].status = 200
                  THEN /\ query.pc = "resolved"
                       /\ query.bodyRead
                       /\ query.data.kind = "array"
                       /\ query.data.value = responses[r][1].body
                  ELSE /\ responses[r][1].status \in {401, 403, 500}
                       /\ query.pc = "rejected"
                       /\ query.error = "Failed to fetch events"
                       /\ ~query.bodyRead
                       /\ query.data.kind = "none"
    /\ query.pc = "resolved" => query.received /\ query.data.kind = "array"
    /\ query.data.kind # "object"

C15_Witness ==
    /\ query.pc = "rejected"
    /\ query.received
    /\ query.error = "Failed to fetch events"
    /\ responses[1][1].status = 403
    /\ responses[1][1].body["error"] = "No Token"
    /\ query.sent = 1

====
